---- MODULE Spec2Model ----
(***************************************************************************)
(* Model of the offset/pointer engine of ssbh_lib (src/ssbh_lib/src/lib.rs):*)
(* the writer threads one data cursor (data_ptr) through the write of a    *)
(* value graph and the reader dereferences offsets with seek/restore.      *)
(* The output is a sparse byte map (std::io::Cursor<Vec<u8>>: a write past *)
(* the end zero-fills the gap).  Positions are naturals below 2^31; 64-bit *)
(* offsets are kept as little-endian byte sequences where overflow matters.*)
(***************************************************************************)
EXTENDS Integers, Sequences, FiniteSets, TLC

VARIABLES
    buf,        \* the bytes of the stream: position -> byte, zero where unwritten
    pos,        \* the stream position of the writer / reader
    data_ptr,   \* the data cursor of the current write
    stack,      \* the ssbh_write calls in progress, innermost last
    status,     \* "write", "ok" (written), "err" (write error), "read", "next"
    root,       \* the value being written (its shape is also its type)
    start,      \* the position at which the value's first byte is written
    mode,       \* "bare": value.ssbh_write(writer, data_ptr); "file": Ssbh::write;
                \* "typed": the write of a format type (Mesh::write, ...)
    fmt,        \* file mode: the SsbhFile variant that is written
    placed,     \* history: one entry per present pointer written so far
    ev,         \* history: what the last step did
    rd,         \* the result of the read of the value at start
    nx,         \* the result of the read of the byte that follows
    dest,       \* write_buffered: the bytes that have reached the destination writer
    call,       \* the entry point of the data layer that was called, with its arguments
    loc,        \* the local variables of that call while it runs
    ret         \* what the call returned

\* the state of the stream engine
engine == <<buf, pos, data_ptr, stack, status, root, start, mode, fmt, placed, ev, rd, nx, dest>>

vars == <<buf, pos, data_ptr, stack, status, root, start, mode, fmt, placed, ev, rd, nx,
          dest, call, loc, ret>>

(***************************************************************************)
(* Bounds of the model.                                                    *)
(***************************************************************************)
MaxDepth == 2       \* pointers nested in a written value
MaxStream == 20     \* length of the streams given to the reader

(***************************************************************************)
(* Bytes and integers.                                                     *)
(***************************************************************************)
Max(a, b) == IF a >= b THEN a ELSE b

\* x.to_le_bytes() truncated to w bytes
RECURSIVE ToLe(_, _)
ToLe(x, w) == IF w = 0 THEN << >> ELSE <<x % 256>> \o ToLe(x \div 256, w - 1)

\* from_le_bytes of a byte sequence whose value is below 2^24
RECURSIVE FromLe(_)
FromLe(bs) == IF bs = << >> THEN 0 ELSE bs[1] + 256 * FromLe(Tail(bs))

\* the value of the bytes is at least 2^24: beyond every stream of the model
IsFar(bs) == \E i \in 4..Len(bs) : bs[i] # 0

Zeros(w) == [i \in 1..w |-> 0]

\* what is left of x above its w low bytes
RECURSIVE HighPart(_, _)
HighPart(x, w) == IF w = 0 THEN x ELSE HighPart(x \div 256, w - 1)

\* the carry out of the addition of two little-endian byte sequences
RECURSIVE CarryOut(_, _, _)
CarryOut(xs, ys, c) ==
    IF xs = << >> THEN c
    ELSE CarryOut(Tail(xs), Tail(ys), (xs[1] + ys[1] + c) \div 256)

\* the little-endian sum of two byte sequences, modulo their width
RECURSIVE SumLe(_, _, _)
SumLe(xs, ys, c) ==
    IF xs = << >> THEN << >>
    ELSE <<(xs[1] + ys[1] + c) % 256>> \o SumLe(Tail(xs), Tail(ys), (xs[1] + ys[1] + c) \div 256)

(***************************************************************************)
(* The stream: Cursor<Vec<u8>>.                                            *)
(***************************************************************************)
EmptyBuf == [q \in {} |-> 0]

StreamLen(b) == IF DOMAIN b = {} THEN 0
                ELSE (CHOOSE q \in DOMAIN b : \A r \in DOMAIN b : r <= q) + 1

ByteAt(b, q) == IF q \in DOMAIN b THEN b[q] ELSE 0

\* write_all(bs) at position p
WriteAt(b, p, bs) ==
    [q \in DOMAIN b \cup (p..(p + Len(bs) - 1)) |->
        IF q >= p /\ q < p + Len(bs) THEN bs[q - p + 1] ELSE b[q]]

\* the w bytes at position p (only meaningful when p + w <= StreamLen(b))
BytesAt(b, p, w) == [i \in 1..w |-> ByteAt(b, p + i - 1)]

(***************************************************************************)
(* Helpers of the writer.                                                  *)
(***************************************************************************)
round_up_no_multiply(value, n) == (value + n - 1) \div n

\* round_up: "Find the next largest multiple of n."
round_up(value, n) == ((value + n - 1) \div n) * n

PointPast_at_field(dp, current_pos, size) == IF dp < current_pos THEN current_pos ELSE dp

PointPast_unfloored(dp, current_pos, size) == dp

\* "The data pointer must point past the containing struct."
PointPast(dp, current_pos, size) ==
    IF dp < current_pos + size THEN current_pos + size ELSE dp

try_from_truncating(w, x) == TRUE

\* P::try_from(*data_ptr) succeeds: the value is representable in w bytes
try_from_ok(w, x) == HighPart(x, w) = 0

relative_offset_from_end(dp, current_pos) == dp - (current_pos + 8)

\* the value written by write_relative_offset
relative_offset(dp, current_pos) == dp - current_pos

PointPastWrite_stays(dp, current_pos, alignment) == dp

PointPastWrite_max(dp, current_pos, alignment) == Max(dp, round_up(current_pos, alignment))

PointPastWrite_always(dp, current_pos, alignment) == round_up(current_pos, alignment)

\* "Point the data pointer past the current write."
PointPastWrite(dp, current_pos, alignment) ==
    IF current_pos > dp THEN round_up(current_pos, alignment) ELSE dp

(***************************************************************************)
(* Values.  A node carries its on-disk size w (size_in_bytes), the         *)
(* alignment a of its type (alignment_in_bytes), its content and, for a    *)
(* pointer, whether it is present.  The type of a value is the value with  *)
(* every integer zero and every pointer null; a null pointer keeps the     *)
(* type of its pointee in sub.                                             *)
(***************************************************************************)
Prim(w, a, v) == [k |-> "prim", w |-> w, a |-> a, v |-> v, some |-> TRUE, sub |-> << >>]

\* Ptr<P, T>::new(c) and Ptr<P, T>::null(), P of w bytes; size_in_bytes is size_of::<P>()
Ptr(w, c) == [k |-> "ptr", w |-> w, a |-> c.a, v |-> 0, some |-> TRUE, sub |-> <<c>>]
NullPtr(w, t) == [k |-> "ptr", w |-> w, a |-> t.a, v |-> 0, some |-> FALSE, sub |-> <<t>>]

\* RelPtr64::new(c) and RelPtr64::null(); size_in_bytes is 8
RelPtr64(c) == [k |-> "rel", w |-> 8, a |-> c.a, v |-> 0, some |-> TRUE, sub |-> <<c>>]
NullRelPtr64(t) == [k |-> "rel", w |-> 8, a |-> t.a, v |-> 0, some |-> FALSE, sub |-> <<t>>]

\* a record of two fields (a derived struct): its size is the sum of its fields
Rec(f, g) == [k |-> "rec", w |-> f.w + g.w, a |-> 8, v |-> 0, some |-> TRUE, sub |-> <<f, g>>]

\* the widths in bytes of the offset types: u8, u16, u32, u64
Widths == {1, 2, 4, 8}

\* pointee leaves: u8, u32 and a two-byte value aligned to 4 (a short string)
Leaves == {Prim(1, 1, 5), Prim(1, 1, 7), Prim(4, 4, 263), Prim(2, 4, 263)}

\* the type of a value
RECURSIVE TypeOf(_)
TypeOf(n) ==
    CASE n.k = "prim" -> [n EXCEPT !.v = 0]
      [] n.k = "rec"  -> [n EXCEPT !.sub = [i \in 1..Len(n.sub) |-> TypeOf(n.sub[i])]]
      [] OTHER        -> [n EXCEPT !.some = FALSE, !.sub = <<TypeOf(n.sub[1])>>]

PtrsTo(S) == {Ptr(w, c) : w \in Widths, c \in S} \cup {RelPtr64(c) : c \in S}

NullsTo(S) == {NullPtr(w, TypeOf(c)) : w \in Widths, c \in S} \cup {NullRelPtr64(TypeOf(c)) : c \in S}

\* the fields of the records of the model
Fields == {Prim(1, 1, 5), Prim(4, 4, 263), NullPtr(2, Prim(1, 1, 0)), NullRelPtr64(Prim(4, 4, 0)),
           Ptr(1, Prim(1, 1, 7)), RelPtr64(Prim(2, 4, 263)), Ptr(4, Prim(4, 4, 263))}

Recs == {Rec(f, g) : f \in Fields, g \in Fields}

\* records that begin with byte arrays long enough to push the data past offset 255
LongRecs ==
    LET block == Rec(Prim(60, 1, 5), Prim(60, 1, 5)) IN
    {Rec(block, Rec(block, g)) : g \in {Ptr(1, Prim(1, 1, 7)), Ptr(4, Prim(4, 4, 263))}}

\* records of two present pointer fields, the first with a pointee nested in its pointee
NestedRecs ==
    {Rec(f, g) : f \in {Ptr(2, Ptr(1, Prim(1, 1, 7))), RelPtr64(RelPtr64(Prim(4, 4, 263)))},
                 g \in {Ptr(1, Prim(1, 1, 7)), RelPtr64(Prim(2, 4, 263))}}

\* pointer values with at most d pointers on a path
RECURSIVE PtrValues(_)
PtrValues(d) == IF d = 1 THEN NullsTo(Leaves) \cup PtrsTo(Leaves)
                ELSE PtrValues(d - 1) \cup NullsTo(PtrValues(d - 1)) \cup PtrsTo(PtrValues(d - 1))

IsPtr(n) == n.k \in {"ptr", "rel"}

(***************************************************************************)
(* The writer: one frame per ssbh_write call in progress.                  *)
(***************************************************************************)
Frame(n) == [n |-> n, pc |-> "start", here |-> 0, resume |-> 0, dpIn |-> 0, i |-> 0]

Top == stack[Len(stack)]
Rest == SubSeq(stack, 1, Len(stack) - 1)

Writing(kind, pc) == /\ status = "write"
                     /\ stack # << >>
                     /\ Top.n.k = kind
                     /\ Top.pc = pc

\* the call on top returns Ok
Return == /\ stack' = Rest
          /\ status' = IF Rest = << >> THEN "ok" ELSE "write"

Event(op, here, w, dpIn, wrote) ==
    [op |-> op, here |-> here, w |-> w, dpIn |-> dpIn, wrote |-> wrote]

Placed(n, here, target) ==
    [k |-> n.k, w |-> n.w, al |-> n.sub[1].a, here |-> here, target |-> target,
     from |-> Top.dpIn]

\* Ptr::ssbh_write: "The data pointer must point past the containing struct."
PtrFloor ==
    /\ Writing("ptr", "start")
    /\ data_ptr' = PointPast(data_ptr, pos, Top.n.w)
    /\ stack' = Rest \o <<[Top EXCEPT !.pc = "match", !.here = pos, !.dpIn = data_ptr]>>
    /\ ev' = Event("floor", pos, Top.n.w, data_ptr, {})
    /\ UNCHANGED <<buf, pos, status, root, start, mode, fmt, placed, rd, nx, dest, call, loc, ret>>

PtrNull_bumps ==
    /\ Writing("ptr", "match")
    /\ ~Top.n.some
    /\ buf' = WriteAt(buf, pos, Zeros(Top.n.w))
    /\ pos' = pos + Top.n.w
    /\ data_ptr' = data_ptr + Top.n.w
    /\ Return
    /\ ev' = Event("null", pos, Top.n.w, Top.dpIn, pos..(pos + Top.n.w - 1))
    /\ UNCHANGED <<root, start, mode, fmt, placed, rd, nx, dest, call, loc, ret>>

\* Ptr::ssbh_write, None: P::default().ssbh_write(writer, data_ptr)
PtrNull ==
    /\ Writing("ptr", "match")
    /\ ~Top.n.some
    /\ buf' = WriteAt(buf, pos, Zeros(Top.n.w))
    /\ pos' = pos + Top.n.w
    /\ Return
    /\ ev' = Event("null", pos, Top.n.w, Top.dpIn, pos..(pos + Top.n.w - 1))
    /\ UNCHANGED <<data_ptr, root, start, mode, fmt, placed, rd, nx, dest, call, loc, ret>>

PtrTarget_after_field(dp, current_pos, n) == round_up(current_pos + n.w, n.sub[1].a)

\* the address chosen for the pointee of a present Ptr at current_pos
PtrTarget(dp, current_pos, n) ==
    round_up(PointPast(dp, current_pos, n.w), n.sub[1].a)

\* Ptr::ssbh_write, Some: the offset is written and the writer seeks to the pointee
PtrOffset ==
    /\ Writing("ptr", "match")
    /\ Top.n.some
    /\ LET target == PtrTarget(data_ptr, pos, Top.n) IN
        /\ try_from_ok(Top.n.w, target)
        /\ data_ptr' = target
        /\ buf' = WriteAt(buf, pos, ToLe(target, Top.n.w))
        /\ pos' = target
        /\ stack' = Rest \o <<[Top EXCEPT !.pc = "wait", !.resume = pos + Top.n.w]>>
                         \o <<Frame(Top.n.sub[1])>>
        /\ placed' = placed \cup {Placed(Top.n, pos, target)}
        /\ ev' = Event("offset", pos, Top.n.w, Top.dpIn, pos..(pos + Top.n.w - 1))
    /\ UNCHANGED <<status, root, start, mode, fmt, rd, nx, dest, call, loc, ret>>

\* Ptr::ssbh_write, Some: P::try_from fails and the error is returned
PtrOffsetFail ==
    /\ Writing("ptr", "match")
    /\ Top.n.some
    /\ LET target == PtrTarget(data_ptr, pos, Top.n) IN
        /\ ~try_from_ok(Top.n.w, target)
        /\ data_ptr' = target
        /\ ev' = Event("fail", pos, Top.n.w, Top.dpIn, {})
    /\ status' = "err"
    /\ UNCHANGED <<buf, pos, stack, root, start, mode, fmt, placed, rd, nx, dest, call, loc, ret>>

PtrFinish_no_seek ==
    /\ Writing("ptr", "wait")
    /\ data_ptr' = PointPastWrite(data_ptr, pos, Top.n.sub[1].a)
    /\ Return
    /\ ev' = Event("finish", Top.here, Top.n.w, Top.dpIn, {})
    /\ UNCHANGED <<buf, pos, root, start, mode, fmt, placed, rd, nx, dest, call, loc, ret>>

\* Ptr::ssbh_write, Some: after the pointee, "Point the data pointer past the current write."
PtrFinish ==
    /\ Writing("ptr", "wait")
    /\ data_ptr' = PointPastWrite(data_ptr, pos, Top.n.sub[1].a)
    /\ pos' = Top.resume
    /\ Return
    /\ ev' = Event("finish", Top.here, Top.n.w, Top.dpIn, {})
    /\ UNCHANGED <<buf, root, start, mode, fmt, placed, rd, nx, dest, call, loc, ret>>

\* RelPtr64::ssbh_write: "The data pointer must point past the containing struct."
RelFloor ==
    /\ Writing("rel", "start")
    /\ data_ptr' = PointPast(data_ptr, pos, Top.n.w)
    /\ stack' = Rest \o <<[Top EXCEPT !.pc = "match", !.here = pos, !.dpIn = data_ptr]>>
    /\ ev' = Event("floor", pos, Top.n.w, data_ptr, {})
    /\ UNCHANGED <<buf, pos, status, root, start, mode, fmt, placed, rd, nx, dest, call, loc, ret>>

\* write_rel_ptr_aligned_specialized, None: "Null offsets don't increment the data pointer."
RelNull ==
    /\ Writing("rel", "match")
    /\ ~Top.n.some
    /\ buf' = WriteAt(buf, pos, ToLe(0, 8))
    /\ pos' = pos + 8
    /\ Return
    /\ ev' = Event("null", pos, 8, Top.dpIn, pos..(pos + 7))
    /\ UNCHANGED <<data_ptr, root, start, mode, fmt, placed, rd, nx, dest, call, loc, ret>>

\* write_rel_ptr_aligned_specialized, Some: the offset is written and the writer seeks
RelOffset ==
    /\ Writing("rel", "match")
    /\ Top.n.some
    /\ LET target == round_up(data_ptr, Top.n.sub[1].a) IN
        /\ data_ptr' = target
        /\ buf' = WriteAt(buf, pos, ToLe(relative_offset(target, pos), 8))
        /\ pos' = target
        /\ stack' = Rest \o <<[Top EXCEPT !.pc = "wait", !.resume = pos + 8]>>
                         \o <<Frame(Top.n.sub[1])>>
        /\ placed' = placed \cup {Placed(Top.n, pos, target)}
        /\ ev' = Event("offset", pos, 8, Top.dpIn, pos..(pos + 7))
    /\ UNCHANGED <<status, root, start, mode, fmt, rd, nx, dest, call, loc, ret>>

\* write_rel_ptr_aligned_specialized, Some: after the pointee
RelFinish ==
    /\ Writing("rel", "wait")
    /\ data_ptr' = PointPastWrite(data_ptr, pos, Top.n.sub[1].a)
    /\ pos' = Top.resume
    /\ Return
    /\ ev' = Event("finish", Top.here, 8, Top.dpIn, {})
    /\ UNCHANGED <<buf, root, start, mode, fmt, placed, rd, nx, dest, call, loc, ret>>

\* the ssbh_write of an integer: its little-endian bytes, the data cursor untouched
WritePrim ==
    /\ Writing("prim", "start")
    /\ buf' = WriteAt(buf, pos, ToLe(Top.n.v, Top.n.w))
    /\ pos' = pos + Top.n.w
    /\ Return
    /\ ev' = Event("prim", pos, Top.n.w, data_ptr, pos..(pos + Top.n.w - 1))
    /\ UNCHANGED <<data_ptr, root, start, mode, fmt, placed, rd, nx, dest, call, loc, ret>>

\* the ssbh_write of a derived struct: the data cursor is moved past the struct
RecFloor ==
    /\ Writing("rec", "start")
    /\ data_ptr' = PointPast(data_ptr, pos, Top.n.w)
    /\ stack' = Rest \o <<[Top EXCEPT !.pc = "fields", !.here = pos, !.dpIn = data_ptr, !.i = 1]>>
    /\ ev' = Event("floor", pos, Top.n.w, data_ptr, {})
    /\ UNCHANGED <<buf, pos, status, root, start, mode, fmt, placed, rd, nx, dest, call, loc, ret>>

\* the ssbh_write of a derived struct: the next field is written
RecField ==
    /\ Writing("rec", "fields")
    /\ Top.i <= Len(Top.n.sub)
    /\ stack' = Rest \o <<[Top EXCEPT !.i = Top.i + 1]>> \o <<Frame(Top.n.sub[Top.i])>>
    /\ ev' = Event("field", pos, Top.n.w, data_ptr, {})
    /\ UNCHANGED <<buf, pos, data_ptr, status, root, start, mode, fmt, placed, rd, nx, dest, call, loc, ret>>

\* the ssbh_write of a derived struct: all fields are written
RecEnd ==
    /\ Writing("rec", "fields")
    /\ Top.i > Len(Top.n.sub)
    /\ Return
    /\ ev' = Event("end", Top.here, Top.n.w, Top.dpIn, {})
    /\ UNCHANGED <<buf, pos, data_ptr, root, start, mode, fmt, placed, rd, nx, dest, call, loc, ret>>


(***************************************************************************)
(* The reader.  A read returns its status, the value, the stream position  *)
(* it leaves (far: a position of 2^24 or more, beyond every stream of the  *)
(* model), the position reported with an error and the positions it read.  *)
(***************************************************************************)
NoValue == Prim(0, 0, 0)

ReadOk(val, p, seen) ==
    [st |-> "ok", val |-> val, pos |-> p, far |-> FALSE, epos |-> 0, seen |-> seen, variant |-> "none"]

ReadErr(st, p, far, epos, seen) ==
    [st |-> st, val |-> NoValue, pos |-> p, far |-> far, epos |-> epos, seen |-> seen, variant |-> "none"]

absolute_offset_wraps(position, offset_bytes) == FALSE

\* absolute_offset_checked: position.checked_add(relative_offset) is None
absolute_offset_overflows(position, offset_bytes) ==
    CarryOut(ToLe(position, 8), offset_bytes, 0) = 1

\* absolute_offset_checked: the sum, as little-endian bytes
absolute_offset_checked(position, offset_bytes) ==
    SumLe(ToLe(position, 8), offset_bytes, 0)

RelSeekPos_after(pos_before_read, offset_bytes) ==
    absolute_offset_checked(pos_before_read + 8, offset_bytes)

\* the target of a present RelPtr64 whose offset field starts at pos_before_read
RelSeekPos(pos_before_read, offset_bytes) ==
    absolute_offset_checked(pos_before_read, offset_bytes)

\* the target of a present Ptr: offset.into()
PtrSeekPos(pos_before_read, offset_bytes) == offset_bytes

SavedPos_before(pos_before_read, w) == pos_before_read

\* the position restored after the pointee has been read
SavedPos(pos_before_read, w) == pos_before_read + w

IsNullOffset_negative(offset_bytes) ==
    \/ \A i \in DOMAIN offset_bytes : offset_bytes[i] = 0
    \/ offset_bytes[Len(offset_bytes)] >= 128

\* offset == P::default() / relative_offset == 0
IsNullOffset(offset_bytes) == \A i \in DOMAIN offset_bytes : offset_bytes[i] = 0

ReadNull_rewound(ty, p, field) == ReadOk(ty, p, field)

\* return Ok(Self::null()): the stream stays where the read of the offset left it
ReadNull(ty, p, field) == ReadOk(ty, p + ty.w, field)

PointeeFailed_restored(value, pos_before_read, w, field) ==
    [value EXCEPT !.pos = pos_before_read + w, !.far = FALSE, !.seen = field \cup value.seen]

\* let value = T::read_options(reader, options, args)?: the error of the pointee is
\* returned at once, with the stream where the read of the pointee left it
PointeeFailed(value, pos_before_read, w, field) ==
    [value EXCEPT !.seen = field \cup value.seen]

\* T::read_options at position p of stream b, T the type ty
RECURSIVE read_options(_, _, _)
read_options(b, p, ty) ==
    IF ty.k = "prim" THEN
        \* an integer: on a short read the position is restored and the error returned
        IF p + ty.w > StreamLen(b)
        THEN ReadErr("eof", p, FALSE, p, p..(StreamLen(b) - 1))
        ELSE ReadOk([ty EXCEPT !.v = FromLe(BytesAt(b, p, ty.w))], p + ty.w, p..(p + ty.w - 1))
    ELSE IF ty.k = "rec" THEN
        \* a derived struct: its fields in order
        LET f == read_options(b, p, ty.sub[1]) IN
        IF f.st # "ok" THEN f
        ELSE LET g == read_options(b, f.pos, ty.sub[2]) IN
             IF g.st # "ok" THEN [g EXCEPT !.seen = f.seen \cup g.seen]
             ELSE ReadOk([ty EXCEPT !.sub = <<f.val, g.val>>], g.pos, f.seen \cup g.seen)
    ELSE
        \* Ptr<P, T> and RelPtr64<T>
        IF p + ty.w > StreamLen(b)
        THEN ReadErr("eof", p, FALSE, p, p..(StreamLen(b) - 1))
        ELSE
        LET offset == BytesAt(b, p, ty.w)
            field  == p..(p + ty.w - 1)
        IN
        IF IsNullOffset(offset) THEN ReadNull(ty, p, field)
        ELSE IF ty.k = "rel" /\ absolute_offset_overflows(p, offset)
        THEN ReadErr("overflow", p + ty.w, FALSE, p, field)
        ELSE
        LET seek_pos == IF ty.k = "rel" THEN RelSeekPos(p, offset) ELSE PtrSeekPos(p, offset) IN
        IF IsFar(seek_pos) THEN ReadErr("eof", 0, TRUE, 0, field)
        ELSE
        LET value == read_options(b, FromLe(seek_pos), ty.sub[1]) IN
        IF value.st # "ok" THEN PointeeFailed(value, p, ty.w, field)
        ELSE ReadOk([ty EXCEPT !.some = TRUE, !.sub = <<value.val>>],
                    SavedPos(p, ty.w), field \cup value.seen)


NoRead == ReadErr("none", 0, FALSE, 0, {})

(***************************************************************************)
(* Whole files: write_ssbh_file and the Ssbh / SsbhFile reader.            *)
(***************************************************************************)
\* b"HBSS"
HBSS == <<72, 66, 83, 83>>

\* enum SsbhFile: the variants in declaration order with their #[br(magic = ...)]
SsbhFile == <<
    [variant |-> "Hlpb", magic |-> <<66, 80, 76, 72>>],    \* b"BPLH"
    [variant |-> "Matl", magic |-> <<76, 84, 65, 77>>],    \* b"LTAM"
    [variant |-> "Modl", magic |-> <<76, 68, 79, 77>>],    \* b"LDOM"
    [variant |-> "Mesh", magic |-> <<72, 83, 69, 77>>],    \* b"HSEM"
    [variant |-> "Skel", magic |-> <<76, 69, 75, 83>>],    \* b"LEKS"
    [variant |-> "Anim", magic |-> <<77, 73, 78, 65>>],    \* b"MINA"
    [variant |-> "Nrpd", magic |-> <<68, 80, 82, 78>>],    \* b"DPRN"
    [variant |-> "Nufx", magic |-> <<88, 70, 85, 78>>],    \* b"XFUN"
    [variant |-> "Shdr", magic |-> <<82, 68, 72, 83>>] >>  \* b"RDHS"

Variants == {SsbhFile[i].variant : i \in DOMAIN SsbhFile}

\* write_ssbh_header_and_data: the magic passed to write_ssbh_file for each variant
write_ssbh_header_and_data(variant) ==
    CASE variant = "Modl" -> <<76, 68, 79, 77>>    \* b"LDOM"
      [] variant = "Skel" -> <<76, 69, 75, 83>>    \* b"LEKS"
      [] variant = "Nufx" -> <<88, 70, 85, 78>>    \* b"XFUN"
      [] variant = "Shdr" -> <<82, 68, 72, 83>>    \* b"RDHS"
      [] variant = "Matl" -> <<76, 84, 65, 77>>    \* b"LTAM"
      [] variant = "Anim" -> <<77, 73, 78, 65>>    \* b"MINA"
      [] variant = "Hlpb" -> <<66, 80, 76, 72>>    \* b"BPLH"
      [] variant = "Mesh" -> <<72, 83, 69, 77>>    \* b"HSEM"
      [] variant = "Nrpd" -> <<68, 80, 82, 78>>    \* b"DPRN"

write_ssbh_header_unpadded(magic) == HBSS \o ToLe(64, 8) \o magic

\* ssbh_read_write_impl!: the magic each format type passes to write_ssbh_file
ssbh_read_write_impl(variant) ==
    CASE variant = "Hlpb" -> <<66, 80, 76, 72>>    \* b"BPLH"
      [] variant = "Matl" -> <<76, 84, 65, 77>>    \* b"LTAM"
      [] variant = "Modl" -> <<76, 68, 79, 77>>    \* b"LDOM"
      [] variant = "Mesh" -> <<72, 83, 69, 77>>    \* b"HSEM"
      [] variant = "Skel" -> <<76, 69, 75, 83>>    \* b"LEKS"
      [] variant = "Anim" -> <<77, 73, 78, 65>>    \* b"MINA"
      [] variant = "Nrpd" -> <<68, 80, 82, 78>>    \* b"DPRN"
      [] variant = "Nufx" -> <<88, 70, 85, 78>>    \* b"XFUN"
      [] variant = "Shdr" -> <<82, 68, 72, 83>>    \* b"RDHS"

\* the magic handed to write_ssbh_file by the write entry point in use
WrittenMagic ==
    IF mode = "file" THEN write_ssbh_header_and_data(fmt) ELSE ssbh_read_write_impl(fmt)

\* write_ssbh_header: "HBSS", 64u64, 0u32, magic
write_ssbh_header(magic) == HBSS \o ToLe(64, 8) \o ToLe(0, 4) \o magic

\* #[br(align_before = 0x10)]: where the reader looks for the SsbhFile magic
AlignBefore(p) == round_up(p, 16)

ReadSsbh_any_head(b, ty) ==
    LET at  == AlignBefore(4)
        m   == {i \in DOMAIN SsbhFile : SsbhFile[i].magic = BytesAt(b, at, 4)}
    IN
    IF at + 4 > StreamLen(b) \/ m = {}
    THEN ReadErr("magic", at, FALSE, at, 0..3 \cup at..(at + 3))
    ELSE
    LET i    == CHOOSE j \in m : \A l \in m : j <= l
        data == read_options(b, at + 4, ty)
    IN [data EXCEPT !.variant = SsbhFile[i].variant]

\* Ssbh::read: the "HBSS" magic, the alignment, then the first variant whose magic matches
ReadSsbh(b, ty) ==
    IF StreamLen(b) < 4 \/ BytesAt(b, 0, 4) # HBSS
    THEN ReadErr("magic", 0, FALSE, 0, 0..3)
    ELSE
    LET at  == AlignBefore(4)
        m   == {i \in DOMAIN SsbhFile : SsbhFile[i].magic = BytesAt(b, at, 4)}
    IN
    IF at + 4 > StreamLen(b) \/ m = {}
    THEN ReadErr("magic", at, FALSE, at, 0..3 \cup at..(at + 3))
    ELSE
    LET i    == CHOOSE j \in m : \A l \in m : j <= l
        data == read_options(b, at + 4, ty)
    IN [data EXCEPT !.variant = SsbhFile[i].variant]

\* write_ssbh_file: the header, then the data cursor is pointed past the struct
WriteHeader ==
    /\ status = "header"
    /\ buf' = WriteAt(buf, pos, write_ssbh_header(WrittenMagic))
    /\ pos' = pos + 20
    /\ data_ptr' = pos + 20 + root.w
    /\ status' = "write"
    /\ ev' = Event("header", pos, 20, data_ptr, pos..(pos + 19))
    /\ UNCHANGED <<stack, root, start, mode, fmt, placed, rd, nx, dest, call, loc, ret>>

\* Ssbh::read on the file that was written
ReadFile ==
    /\ status = "ok"
    /\ mode \in {"file", "typed"}
    /\ rd' = ReadSsbh(buf, TypeOf(root))
    /\ pos' = rd'.pos
    /\ status' = "read"
    /\ ev' = Event("read", 0, 0, data_ptr, {})
    /\ UNCHANGED <<buf, data_ptr, stack, root, start, mode, fmt, placed, nx, dest, call, loc, ret>>

\* nothing is in progress in the data layer
NoCall == [op |-> "none"]
NoLocals == [pc |-> "none"]
NoReturn == [st |-> "none"]

read_ssbh_type_any(r, want) == r

\* ssbh_read_write_impl!, read and from_file: the ? on read_le::<Ssbh>(), then
\* match ssbh.data { $ty2(v) => Ok(v), _ => Err(ReadSsbhError::InvalidSsbhType) }
read_ssbh_type(r, want) ==
    IF r.st # "ok" THEN r
    ELSE IF r.variant = want THEN r
    ELSE ReadErr("InvalidSsbhType", r.pos, FALSE, 0, r.seen)

\* $ty::read on the file, $ty the format type of the variant want
ReadTyped ==
    /\ status = "ok"
    /\ mode \in {"file", "typed"}
    /\ \E want \in Variants :
        /\ call' = [op |-> "read", want |-> want]
        /\ ret' = read_ssbh_type(ReadSsbh(buf, TypeOf(root)), want)
    /\ pos' = ret'.pos
    /\ status' = "typed"
    /\ UNCHANGED <<buf, data_ptr, stack, root, start, mode, fmt, placed, ev, rd, nx, dest, loc>>

\* write_buffered after write_data returned Ok: writer.write_all(cursor.get_mut())
WriteBuffered ==
    /\ status = "ok"
    /\ mode \in {"file", "typed"}
    /\ dest' = buf
    /\ status' = "flushed"
    /\ UNCHANGED <<buf, pos, data_ptr, stack, root, start, mode, fmt, placed, ev, rd, nx, call, loc, ret>>

WriteBufferedErr_flushes ==
    /\ status = "err"
    /\ mode \in {"file", "typed"}
    /\ dest' = buf
    /\ status' = "failed"
    /\ UNCHANGED <<buf, pos, data_ptr, stack, root, start, mode, fmt, placed, ev, rd, nx, call, loc, ret>>

\* write_buffered after write_data returned an error: write_data(&mut cursor)? returns
\* before anything is handed to the writer
WriteBufferedErr ==
    /\ status = "err"
    /\ mode \in {"file", "typed"}
    /\ status' = "failed"
    /\ UNCHANGED <<buf, pos, data_ptr, stack, root, start, mode, fmt, placed, ev, rd, nx, dest, call, loc, ret>>

\* a reader is opened on the written bytes at the position of the value
Rewind ==
    /\ status = "ok"
    /\ mode = "bare"
    /\ pos' = start
    /\ status' = "dec"
    /\ ev' = Event("rewind", start, 0, data_ptr, {})
    /\ UNCHANGED <<buf, data_ptr, stack, root, start, mode, fmt, placed, rd, nx, dest, call, loc, ret>>

\* reader.read_le::<T>() for the type of root
ReadValue ==
    /\ status = "dec"
    /\ rd' = read_options(buf, pos, TypeOf(root))
    /\ pos' = rd'.pos
    /\ status' = "read"
    /\ UNCHANGED <<buf, data_ptr, stack, root, start, mode, fmt, placed, ev, nx, dest, call, loc, ret>>

\* reader.read_le::<u8>() after the value
ReadNext ==
    /\ status = "read"
    /\ mode = "bare"
    /\ ~rd.far
    /\ nx' = read_options(buf, pos, Prim(1, 1, 0))
    /\ pos' = nx'.pos
    /\ status' = "next"
    /\ UNCHANGED <<buf, data_ptr, stack, root, start, mode, fmt, placed, ev, rd, dest, call, loc, ret>>

(***************************************************************************)
(* The write of a value or of a file, followed by the read of the result.  *)
(***************************************************************************)
\* writer positions at which a value is written
Starts == {0, 4}

\* data cursors handed to ssbh_write
Cursors == {0, 3, 250, 65533}

Values == PtrValues(MaxDepth) \cup Recs \cup PtrsTo(Recs) \cup NestedRecs

NoEvent == Event("init", 0, 0, 0, {})

InitBare ==
    /\ mode = "bare"
    /\ fmt = "none"
    /\ root \in Values
    /\ start \in Starts
    /\ pos = start
    /\ data_ptr \in Cursors
    /\ status = "write"

InitFile ==
    /\ mode \in {"file", "typed"}
    /\ fmt \in Variants
    /\ root \in Recs \cup LongRecs \cup NestedRecs
    /\ start = 20
    /\ pos = 0
    /\ data_ptr = 0
    /\ status = "header"

Init ==
    /\ (InitBare \/ InitFile)
    /\ buf = EmptyBuf
    /\ stack = <<Frame(root)>>
    /\ placed = {}
    /\ ev = NoEvent
    /\ rd = NoRead
    /\ nx = NoRead
    /\ dest = EmptyBuf
    /\ call = NoCall
    /\ loc = NoLocals
    /\ ret = NoReturn

Next ==
    \/ PtrFloor \/ PtrNull \/ PtrOffset \/ PtrOffsetFail \/ PtrFinish
    \/ RelFloor \/ RelNull \/ RelOffset \/ RelFinish
    \/ WritePrim \/ RecFloor \/ RecField \/ RecEnd
    \/ WriteHeader \/ ReadFile \/ Rewind \/ ReadValue \/ ReadNext
    \/ WriteBuffered \/ WriteBufferedErr \/ ReadTyped

Spec == Init /\ [][Next]_vars


(***************************************************************************)
(* The read of a pointer from a given stream: the stream holds a distinct  *)
(* non-zero byte at every position, an offset field at start and a second  *)
(* offset field that a nested pointer may reach.                           *)
(***************************************************************************)
Filler == [q \in 0..(MaxStream - 1) |-> 200 + q]

AllFF(w) == [i \in 1..w |-> 255]

\* offset fields of w bytes: null, targets inside the stream (before and after
\* the field), targets past its end, and values near the top of the range
OffsetFields(w) ==
    {ToLe(o, w) : o \in {0, 1, 9, 12, 13, 16, MaxStream}}
        \cup {AllFF(w), [i \in 1..w |-> IF i = 1 THEN 252 ELSE 255]}

\* the second offset field, always 8 bytes
InnerFields == {ToLe(o, 8) : o \in {0, 1, 3, 18}}

ReadTypes ==
    {TypeOf(v) : v \in PtrsTo({Prim(1, 1, 0), Prim(2, 4, 0)})
                        \cup PtrsTo(PtrsTo({Prim(1, 1, 0)}))}

\* positions of the offset field in the stream
ReadStarts == {0, 4, 12}

InitRead ==
    /\ root \in ReadTypes
    /\ start \in ReadStarts
    /\ \E o \in OffsetFields(root.w), q \in {9, 12}, i \in InnerFields :
            buf = WriteAt(WriteAt(Filler, q, i), start, o)
    /\ pos = start
    /\ status = "dec"
    /\ mode = "bare"
    /\ fmt = "none"
    /\ data_ptr = 0
    /\ stack = << >>
    /\ placed = {}
    /\ ev = NoEvent
    /\ rd = NoRead
    /\ nx = NoRead
    /\ dest = EmptyBuf
    /\ call = NoCall
    /\ loc = NoLocals
    /\ ret = NoReturn

NextRead == ReadValue \/ ReadNext

SpecRead == InitRead /\ [][NextRead]_vars

(***************************************************************************)
(* The read entry points on a given file: a header whose first four bytes  *)
(* and whose format tag may be anything, a body, and the file cut short.   *)
(***************************************************************************)
\* the first four bytes: b"HBSS", b"HBST", b"SSBH" and zeros
Heads == {HBSS, <<72, 66, 83, 84>>, <<83, 83, 66, 72>>, Zeros(4)}

\* the format tag: the nine magics, b"MESH", b"HSEN" and zeros
Tags == {SsbhFile[i].magic : i \in DOMAIN SsbhFile}
            \cup {<<77, 69, 83, 72>>, <<72, 83, 69, 78>>, Zeros(4)}

\* the body: a one-byte pointer to a byte, then a 16-bit integer
BodyType == TypeOf(Rec(Ptr(1, Prim(1, 1, 0)), Prim(2, 2, 0)))
Body == <<23, 1, 2, 9>>

\* the lengths to which the file is cut
FileLens == {24, 23, 21, 18, 3}

GivenFile(head, tag, n) ==
    LET whole == WriteAt(WriteAt(WriteAt(EmptyBuf, 0, write_ssbh_header(tag)), 0, head), 20, Body)
    IN [q \in 0..(n - 1) |-> whole[q]]

InitSsbh ==
    /\ \E head \in Heads, tag \in Tags, n \in FileLens : buf = GivenFile(head, tag, n)
    /\ root = BodyType
    /\ start = 20
    /\ pos = 0
    /\ status = "ok"
    /\ mode = "file"
    /\ fmt = "none"
    /\ data_ptr = 0
    /\ stack = << >>
    /\ placed = {}
    /\ ev = NoEvent
    /\ rd = NoRead
    /\ nx = NoRead
    /\ dest = EmptyBuf
    /\ call = NoCall
    /\ loc = NoLocals
    /\ ret = NoReturn

NextSsbh == ReadFile \/ ReadTyped

SpecSsbh == InitSsbh /\ [][NextSsbh]_vars

(***************************************************************************)
(* The data layer, ssbh_data/src/mesh_data.rs: attributes, vertex indices  *)
(* and bone weights are decoded from the byte buffers of a mesh.  A buffer *)
(* is a sequence of bytes (Vec<u8>); position p is its element p + 1.  One *)
(* step of the model is the entry of a function, one iteration of its loop *)
(* or its return.                                                          *)
(***************************************************************************)
MaxBuffer == 14     \* length in bytes of the buffers of a mesh
MaxCount == 3       \* vertex_count and vertex_index_count

\* the stream engine is not in use
Idle ==
    /\ buf = EmptyBuf
    /\ pos = 0
    /\ data_ptr = 0
    /\ stack = << >>
    /\ status = "idle"
    /\ root = NoValue
    /\ start = 0
    /\ mode = "data"
    /\ fmt = "none"
    /\ placed = {}
    /\ ev = NoEvent
    /\ rd = NoRead
    /\ nx = NoRead
    /\ dest = EmptyBuf

\* Err(..)? of a function of the data layer: the error and nothing else
Failure(msg) == [st |-> "err", msg |-> msg, data |-> << >>]

\* Ok(data)
Success(data) == [st |-> "ok", msg |-> "", data |-> data]

Returned == [pc |-> "returned"]

\* None / Option::None of the result
Absent == [st |-> "absent", msg |-> "", data |-> << >>]

\* an index out of bounds in self.bones[..] or an unwrap of None: the call panics
Panic == [st |-> "panic", msg |-> "", data |-> << >>]

\* reader.read_le::<T>() at position p of the bytes bs, T of w bytes: the bytes
\* read, or none when fewer than w bytes are left (the read fails)
read_le(bs, p, w) == IF p + w <= Len(bs) THEN SubSeq(bs, p + 1, p + w) ELSE << >>

\* the $t_in of read_data! for each DataType, and its size in bytes
ComponentType(data_type) ==
    CASE data_type = "Byte"      -> [t_in |-> "u8", w |-> 1]
      [] data_type = "Float"     -> [t_in |-> "f32", w |-> 4]
      [] data_type = "HalfFloat" -> [t_in |-> "Half", w |-> 2]

\* <$t_out>::from(x): the float is kept as the type and the bytes it was read from
Component(data_type, bytes) == [from |-> ComponentType(data_type).t_in, le |-> bytes]

buffer_error_unsupported_first(index, count) ==
    IF index \notin {0, 1} THEN "Buffer indices higher than 1 are not supported."
    ELSE IF index >= count THEN "Invalid buffer index."
    ELSE ""

\* read_attribute_data!: vertex_buffers.elements.get(index).ok_or(..)?, then the
\* match on the index; "" when neither fails
buffer_error(index, count) ==
    IF index >= count THEN "Invalid buffer index."
    ELSE IF index \notin {0, 1} THEN "Buffer indices higher than 1 are not supported."
    ELSE ""

\* read_attribute_data!: let offset = match $buffer_access.index { .. }
attribute_offset(c) ==
    IF c.index = 0 THEN c.offset + c.vertex_offset ELSE c.offset + c.vertex_offset2

\* read_attribute_data!: let stride = match $buffer_access.index { .. }
attribute_stride(c) == IF c.index = 0 THEN c.stride ELSE c.stride2

element_seek_packed(offset, i, stride) == offset + i

\* read_data!: $reader.seek(SeekFrom::Start($offset + i * $stride))
element_seek(offset, i, stride) == offset + i * stride

\* read_attribute_data!: the buffer is looked up, the offset and the stride are chosen
read_attribute_data_begin ==
    /\ call.op = "read_attribute_data"
    /\ loc.pc = "begin"
    /\ LET e == buffer_error(call.index, Len(call.vertex_buffers)) IN
       IF e # ""
       THEN /\ ret' = Failure(e)
            /\ loc' = Returned
       ELSE /\ loc' = [pc |-> "read_data", offset |-> attribute_offset(call),
                       stride |-> attribute_stride(call), i |-> 0, result |-> << >>]
            /\ ret' = ret
    /\ UNCHANGED call
    /\ UNCHANGED engine

\* read_data!: one iteration of for i in 0..$count
read_data_element ==
    /\ call.op = "read_attribute_data"
    /\ loc.pc = "read_data"
    /\ loc.i < call.vertex_count
    /\ LET w  == ComponentType(call.data_type).w
           at == element_seek(loc.offset, loc.i, loc.stride)
           element == [j \in 1..call.size |->
                          read_le(call.vertex_buffers[call.index + 1], at + (j - 1) * w, w)]
       IN
       IF \E j \in 1..call.size : element[j] = << >>
       THEN /\ ret' = Failure("UnexpectedEof")
            /\ loc' = Returned
       ELSE /\ loc' = [loc EXCEPT !.i = loc.i + 1,
                                  !.result = Append(loc.result,
                                      [j \in 1..call.size |-> Component(call.data_type, element[j])])]
            /\ ret' = ret
    /\ UNCHANGED call
    /\ UNCHANGED engine

\* read_positions: Ok(data) after the last iteration
read_data_end ==
    /\ call.op = "read_attribute_data"
    /\ loc.pc = "read_data"
    /\ loc.i = call.vertex_count
    /\ ret' = Success(loc.result)
    /\ loc' = Returned
    /\ UNCHANGED call
    /\ UNCHANGED engine

index_size_swapped(draw_element_type) == IF draw_element_type = "UnsignedShort" THEN 4 ELSE 2

\* read_vertex_indices: read_le::<u16>() for UnsignedShort, read_le::<u32>() for UnsignedInt
index_size(draw_element_type) == IF draw_element_type = "UnsignedShort" THEN 2 ELSE 4

\* read_vertex_indices: reader.seek(SeekFrom::Start(mesh_object.element_offset as u64))?
read_vertex_indices_begin ==
    /\ call.op = "read_vertex_indices"
    /\ loc.pc = "begin"
    /\ loc' = [pc |-> "indices", reader |-> call.element_offset, i |-> 0, indices |-> << >>]
    /\ UNCHANGED <<call, ret>>
    /\ UNCHANGED engine

\* read_vertex_indices: one iteration of for _ in 0..mesh_object.vertex_index_count
read_vertex_indices_index ==
    /\ call.op = "read_vertex_indices"
    /\ loc.pc = "indices"
    /\ loc.i < call.vertex_index_count
    /\ LET w     == index_size(call.draw_element_type)
           bytes == read_le(call.polygon_buffer, loc.reader, w)
       IN
       IF bytes = << >>
       THEN /\ ret' = Failure("UnexpectedEof")
            /\ loc' = Returned
       ELSE /\ loc' = [loc EXCEPT !.i = loc.i + 1, !.reader = loc.reader + w,
                                  !.indices = Append(loc.indices, FromLe(bytes))]
            /\ ret' = ret
    /\ UNCHANGED call
    /\ UNCHANGED engine

\* read_vertex_indices: Ok(indices)
read_vertex_indices_end ==
    /\ call.op = "read_vertex_indices"
    /\ loc.pc = "indices"
    /\ loc.i = call.vertex_index_count
    /\ ret' = Success(loc.indices)
    /\ loc' = Returned
    /\ UNCHANGED call
    /\ UNCHANGED engine

\* i16::from_le_bytes
SignedLe16(bytes) == IF FromLe(bytes) >= 32768 THEN FromLe(bytes) - 65536 ELSE FromLe(bytes)

VertexWeight_padded(bs, p) ==
    IF read_le(bs, p, 2) = << >> \/ read_le(bs, p + 4, 4) = << >>
    THEN [ok |-> FALSE, vertex_index |-> 0, vertex_weight |-> << >>, reader |-> p]
    ELSE [ok |-> TRUE, vertex_index |-> SignedLe16(read_le(bs, p, 2)),
          vertex_weight |-> read_le(bs, p + 4, 4), reader |-> p + 8]

\* reader.read_le::<VertexWeight>(): vertex_index: i16, then vertex_weight: f32
VertexWeight(bs, p) ==
    IF read_le(bs, p, 2) = << >> \/ read_le(bs, p + 2, 4) = << >>
    THEN [ok |-> FALSE, vertex_index |-> 0, vertex_weight |-> << >>, reader |-> p]
    ELSE [ok |-> TRUE, vertex_index |-> SignedLe16(read_le(bs, p, 2)),
          vertex_weight |-> read_le(bs, p + 2, 4), reader |-> p + 6]

\* read_influences: the next buffer of the rigging group; its name, then a reader on its data
read_influences_buffer ==
    /\ call.op = "read_influences"
    /\ loc.pc = "buffers"
    /\ loc.b < Len(call.buffers)
    /\ IF ~call.buffers[loc.b + 1].bone_name
       THEN /\ ret' = Failure("Failed to read bone name.")
            /\ loc' = Returned
       ELSE /\ loc' = [loc EXCEPT !.pc = "weights", !.reader = 0, !.influences = << >>]
            /\ ret' = ret
    /\ UNCHANGED call
    /\ UNCHANGED engine

\* read_influences: while let Ok(influence) = reader.read_le::<VertexWeight>()
read_influences_weight ==
    /\ call.op = "read_influences"
    /\ loc.pc = "weights"
    /\ LET influence == VertexWeight(call.buffers[loc.b + 1].data, loc.reader) IN
       IF influence.ok
       THEN loc' = [loc EXCEPT !.reader = influence.reader,
                               !.influences = Append(loc.influences,
                                   [vertex_index |-> influence.vertex_index,
                                    vertex_weight |-> influence.vertex_weight])]
       ELSE loc' = [loc EXCEPT !.pc = "buffers", !.b = loc.b + 1,
                               !.bone_influences = Append(loc.bone_influences, loc.influences)]
    /\ UNCHANGED <<call, ret>>
    /\ UNCHANGED engine

\* read_influences: Ok(bone_influences)
read_influences_end ==
    /\ call.op = "read_influences"
    /\ loc.pc = "buffers"
    /\ loc.b = Len(call.buffers)
    /\ ret' = Success(loc.bone_influences)
    /\ loc' = Returned
    /\ UNCHANGED call
    /\ UNCHANGED engine

\* the bytes of buffer s of a mesh: every position of every buffer holds another value
BufferBytes(s, n) == [q \in 1..n |-> 16 * s + q]

BufferLens == {7, MaxBuffer}

\* the string of an SsbhString, None when its bytes are not UTF-8 (a byte of 0x80 or more
\* on its own is not)
get_string(s) == IF \A k \in DOMAIN s.bytes : s.bytes[k] < 128 THEN <<s.bytes>> ELSE << >>

iter_next_back(elements) == IF elements = << >> THEN << >> ELSE <<elements[Len(elements)]>>

\* elements.iter().next()
iter_next(elements) == IF elements = << >> THEN << >> ELSE <<elements[1]>>

\* get_attribute_name: attribute_names.elements.iter().next().unwrap().get_string()
get_attribute_name ==
    /\ call.op = "get_attribute_name"
    /\ loc.pc = "begin"
    /\ LET first == iter_next(call.attribute_names) IN
       ret' = IF first = << >> THEN Panic
              ELSE LET name == get_string(first[1]) IN
                   IF name = << >> THEN Absent ELSE Success(name[1])
    /\ loc' = Returned
    /\ UNCHANGED call
    /\ UNCHANGED engine

\* attribute names: "a", "bc" and a byte that is no string
AttributeNames == {[bytes |-> <<97>>], [bytes |-> <<98, 99>>], [bytes |-> <<255>>]}

\* a v1.10 attribute with no, one or two names
NameCalls ==
    [op : {"get_attribute_name"},
     attribute_names : {<< >>} \cup {<<a>> : a \in AttributeNames}
                         \cup {<<a, b>> : a \in AttributeNames, b \in AttributeNames}]

\* a mesh object and an attribute of it: the two offsets differ, and so do the strides
AttributeCalls ==
    [op : {"read_attribute_data"},
     vertex_buffers : {[s \in 1..k |-> BufferBytes(s, n)] : k \in 0..3, n \in BufferLens},
     index : 0..3,
     offset : {0, 1},
     data_type : {"Byte", "Float", "HalfFloat"},
     size : {2, 3, 4},
     vertex_offset : {0, 3},
     vertex_offset2 : {2},
     stride : {0, 4, 6},
     stride2 : {5},
     vertex_count : {0, 2, MaxCount}]

IndexCalls ==
    [op : {"read_vertex_indices"},
     polygon_buffer : {BufferBytes(0, n) : n \in {0} \cup BufferLens},
     element_offset : {0, 1, 5, MaxBuffer + 2},
     draw_element_type : {"UnsignedShort", "UnsignedInt"},
     vertex_index_count : 0..MaxCount]

\* bone buffers: a name that is a string or not, and weight data of every length
BoneBuffers(s) == [bone_name : BOOLEAN, data : {BufferBytes(s, n) : n \in 0..(MaxBuffer - 1)}]

InfluenceCalls ==
    [op : {"read_influences"},
     buffers : {<<b>> : b \in BoneBuffers(15)}
                 \cup {<<a, b>> : a \in {x \in BoneBuffers(7) : Len(x.data) \in {0, 9}},
                                  b \in {x \in BoneBuffers(15) : Len(x.data) \in {5, 12}}}]

InitMesh ==
    /\ Idle
    /\ call \in AttributeCalls \cup IndexCalls \cup InfluenceCalls \cup NameCalls
    /\ loc = IF call.op = "read_influences"
             THEN [pc |-> "buffers", b |-> 0, reader |-> 0, influences |-> << >>,
                   bone_influences |-> << >>]
             ELSE [pc |-> "begin"]
    /\ ret = NoReturn

NextMesh ==
    \/ read_attribute_data_begin \/ read_data_element \/ read_data_end
    \/ read_vertex_indices_begin \/ read_vertex_indices_index \/ read_vertex_indices_end
    \/ read_influences_buffer \/ read_influences_weight \/ read_influences_end
    \/ get_attribute_name

SpecMesh == InitMesh /\ [][NextMesh]_vars

\* a call that has been entered runs on until it returns
SpecMeshFair == SpecMesh /\ WF_vars(NextMesh)

(***************************************************************************)
(* The data layer, ssbh_data/src/skel_data.rs: the bind transform of a     *)
(* bone is accumulated along its parent chain.  A transform is a 4 x 4     *)
(* array of rows ([[f32; 4]; 4]) with small integer entries; a Mat4 is     *)
(* kept as glam keeps it, by its four columns.  An Option is a sequence of *)
(* at most one element.                                                    *)
(***************************************************************************)
MaxBones == 3       \* bones of a skeleton
MaxLinks == 4       \* iterations of the loop over the parents that are followed

\* Mat4::from_cols_array_2d: each inner array is a column
from_cols_array_2d(m) == [x_axis |-> m[1], y_axis |-> m[2], z_axis |-> m[3], w_axis |-> m[4]]

\* Mat4::to_cols_array_2d
to_cols_array_2d(a) == <<a.x_axis, a.y_axis, a.z_axis, a.w_axis>>

\* Mat4::transpose
transpose(a) ==
    from_cols_array_2d([i \in 1..4 |-> <<a.x_axis[i], a.y_axis[i], a.z_axis[i], a.w_axis[i]>>])

\* Mat4 * Vec4
mul_vec4(a, v) ==
    [i \in 1..4 |-> a.x_axis[i] * v[1] + a.y_axis[i] * v[2] + a.z_axis[i] * v[3] + a.w_axis[i] * v[4]]

\* Mat4::mul_mat4: self * other
mul_mat4(a, other) ==
    [x_axis |-> mul_vec4(a, other.x_axis), y_axis |-> mul_vec4(a, other.y_axis),
     z_axis |-> mul_vec4(a, other.z_axis), w_axis |-> mul_vec4(a, other.w_axis)]

mat4_from_cols2d(elements) == from_cols_array_2d(elements)

\* mat4_from_row2d
mat4_from_row2d(elements) == transpose(from_cols_array_2d(elements))

\* self.bones.iter().position(|b| b.name == parent_bone_name)
position(bones, name) ==
    LET found == {i \in 0..(Len(bones) - 1) : bones[i + 1].name = name} IN
    IF found = {} THEN << >> ELSE <<CHOOSE i \in found : \A j \in found : i <= j>>

\* self.bones[i]
bones_index(bones, i) ==
    IF i < Len(bones) THEN [st |-> "some", bone |-> bones[i + 1]]
    ELSE [st |-> "panic", bone |-> << >>]

bones_get_unchecked(bones, i) == bones_index(bones, i)

\* self.bones.get(i)
bones_get(bones, i) ==
    IF i < Len(bones) THEN [st |-> "some", bone |-> bones[i + 1]]
    ELSE [st |-> "none", bone |-> << >>]

\* calculate_single_bind_transform up to the loop: the bone is looked up by name
calculate_single_bind_transform_begin ==
    /\ call.op = "calculate_single_bind_transform"
    /\ loc.pc = "begin"
    /\ LET found == position(call.bones, call.parent_bone_name) IN
       IF found = << >>
       THEN /\ ret' = Absent
            /\ loc' = Returned
       ELSE LET current == bones_get(call.bones, found[1])
                indexed == bones_index(call.bones, found[1])
            IN
            IF current.st # "some"
            THEN /\ ret' = IF current.st = "panic" THEN Panic ELSE Absent
                 /\ loc' = Returned
            ELSE IF indexed.st = "panic"
            THEN /\ ret' = Panic
                 /\ loc' = Returned
            ELSE /\ loc' = [pc |-> "parents", transform |-> mat4_from_row2d(current.bone.transform),
                            parent_index |-> indexed.bone.parent_index, links |-> 0]
                 /\ ret' = ret
    /\ UNCHANGED call
    /\ UNCHANGED engine

\* one iteration of while parent_index.is_some()
calculate_single_bind_transform_parent ==
    /\ call.op = "calculate_single_bind_transform"
    /\ loc.pc = "parents"
    /\ loc.parent_index # << >>
    /\ loc.links < MaxLinks
    /\ LET parent == bones_get(call.bones, loc.parent_index[1]) IN
       IF parent.st # "some"
       THEN /\ ret' = IF parent.st = "panic" THEN Panic ELSE Absent
            /\ loc' = Returned
       ELSE /\ loc' = [loc EXCEPT
                          !.transform = mul_mat4(loc.transform, mat4_from_row2d(parent.bone.transform)),
                          !.parent_index = parent.bone.parent_index,
                          !.links = loc.links + 1]
            /\ ret' = ret
    /\ UNCHANGED call
    /\ UNCHANGED engine

\* Some(transform.transpose().to_cols_array_2d())
calculate_single_bind_transform_end ==
    /\ call.op = "calculate_single_bind_transform"
    /\ loc.pc = "parents"
    /\ loc.parent_index = << >>
    /\ ret' = Success(to_cols_array_2d(transpose(loc.transform)))
    /\ loc' = Returned
    /\ UNCHANGED call
    /\ UNCHANGED engine

\* the iterations of while parent_index.is_some() after the first MaxLinks: the loop goes
\* on from parent to parent (the product is followed for the first MaxLinks links only,
\* and of the number of the later links only whether it is odd)
calculate_single_bind_transform_more ==
    /\ call.op = "calculate_single_bind_transform"
    /\ loc.pc = "parents"
    /\ loc.parent_index # << >>
    /\ loc.links >= MaxLinks
    /\ LET parent == bones_get(call.bones, loc.parent_index[1]) IN
       IF parent.st # "some"
       THEN /\ ret' = IF parent.st = "panic" THEN Panic ELSE Absent
            /\ loc' = Returned
       ELSE /\ loc' = [loc EXCEPT !.parent_index = parent.bone.parent_index,
                                  !.links = IF loc.links = MaxLinks THEN MaxLinks + 1
                                            ELSE MaxLinks]
            /\ ret' = ret
    /\ UNCHANGED call
    /\ UNCHANGED engine

\* transforms that do not commute and are not symmetric
Transforms == <<
    <<<<1, 0, 0, 0>>, <<0, 2, 0, 0>>, <<0, 0, 3, 1>>, <<0, 0, 0, 1>>>>,
    <<<<1, 0, 0, 0>>, <<0, 2, 0, 0>>, <<0, 0, 3, 0>>, <<0, 0, 0, 4>>>>,
    <<<<0, 1, 0, 0>>, <<1, 0, 0, 0>>, <<0, 0, 1, 0>>, <<2, 0, 0, 1>>>> >>

\* the names of the bones of a skeleton, some of them twice
BoneNames == {<<"a", "b", "c">>, <<"b", "a", "a">>, <<"a", "a", "b">>}

\* parent_index: None, a bone of the skeleton or an index past its end
ParentIndices == {<< >>} \cup {<<i>> : i \in 0..MaxBones}

\* skeletons of n bones
Skeletons(n) ==
    {[i \in 1..n |-> [name |-> names[((i - 1) % 3) + 1], transform |-> Transforms[((i + r) % 3) + 1],
                      parent_index |-> parents[i]]] :
        names \in BoneNames, r \in 0..2, parents \in [1..n -> ParentIndices]}

InitSkel ==
    /\ Idle
    /\ call \in [op : {"calculate_single_bind_transform"},
                 bones : UNION {Skeletons(n) : n \in 0..MaxBones},
                 parent_bone_name : {"a", "c", "z"}]
    /\ loc = [pc |-> "begin"]
    /\ ret = NoReturn

NextSkel ==
    \/ calculate_single_bind_transform_begin
    \/ calculate_single_bind_transform_parent
    \/ calculate_single_bind_transform_end
    \/ calculate_single_bind_transform_more

SpecSkel == InitSkel /\ [][NextSkel]_vars

\* a call that has been entered runs on: the loop takes its next iteration
SpecSkelFair == SpecSkel /\ WF_vars(NextSkel)


(***************************************************************************)
(* read_attribute_data! and read_data! at the width of their integers: the *)
(* u32 fields of the mesh object and of the attribute are sequences of     *)
(* four little-endian bytes, the u64 values of the macros sequences of     *)
(* eight, and an iteration i of the loop is looked at on its own.          *)
(***************************************************************************)
as_u64_narrow(x) == x

\* x as u64
as_u64(x) == x \o Zeros(4)

\* the sum of the products xs[i] * ys[j] with i + j = k + 1, from i on
RECURSIVE ColumnSum(_, _, _, _)
ColumnSum(xs, ys, k, i) ==
    IF i > Len(xs) THEN 0
    ELSE (IF k + 1 - i \in 1..Len(ys) THEN xs[i] * ys[k + 1 - i] ELSE 0)
            + ColumnSum(xs, ys, k, i + 1)

\* the bytes k, k + 1, .. of the product of two little-endian byte sequences, c carried in
RECURSIVE MulColumns(_, _, _, _)
MulColumns(xs, ys, k, c) ==
    IF k > Len(xs) + Len(ys) THEN << >>
    ELSE LET s == c + ColumnSum(xs, ys, k, 1) IN
         <<s % 256>> \o MulColumns(xs, ys, k + 1, s \div 256)

\* the full product of two little-endian byte sequences
MulLe(xs, ys) == MulColumns(xs, ys, 1, 0)

\* x * y and x + y of two integers of the same width: the wrapped result and whether
\* the exact result does not fit
wide_mul(x, y) ==
    LET p == MulLe(x, y) IN
    [value |-> SubSeq(p, 1, Len(x)),
     overflow |-> \E k \in (Len(x) + 1)..Len(p) : p[k] # 0]

wide_add(x, y) == [value |-> SumLe(x, y, 0), overflow |-> CarryOut(x, y, 0) = 1]

\* i < n for two little-endian byte sequences of the same length
LessLe(xs, ys) ==
    \E k \in 1..Len(xs) : xs[k] < ys[k] /\ \A j \in (k + 1)..Len(xs) : xs[j] = ys[j]

\* an arithmetic overflow: a panic in a build with overflow checks, the wrapped value in
\* a build without
Builds == {"checked", "wrapping"}

\* read_attribute_data!: let offset = .. as u64; let stride = .. as u64
read_attribute_data_u64 ==
    /\ call.op = "read_attribute_data_u64"
    /\ loc.pc = "begin"
    /\ LET offset == wide_add(as_u64(call.offset),
                              as_u64(IF call.index = 0 THEN call.vertex_offset
                                     ELSE call.vertex_offset2))
           stride == as_u64(IF call.index = 0 THEN call.stride ELSE call.stride2)
       IN
       \E build \in Builds :
          IF offset.overflow /\ build = "checked"
          THEN /\ ret' = Panic
               /\ loc' = [pc |-> "returned", overflow |-> TRUE]
          ELSE /\ loc' = [pc |-> "read_data", offset |-> offset.value, stride |-> stride,
                          overflow |-> offset.overflow]
               /\ ret' = ret
    /\ UNCHANGED call
    /\ UNCHANGED engine

\* values of the loop variable i of read_data! that are looked at
Iterations == {ToLe(0, 4), ToLe(1, 4), <<0, 0, 0, 128>>, <<254, 255, 255, 255>>}

\* read_data!: $reader.seek(SeekFrom::Start($offset + i * $stride)) in iteration i
read_data_seek_u64 ==
    /\ call.op = "read_attribute_data_u64"
    /\ loc.pc = "read_data"
    /\ \E i \in Iterations, build \in Builds :
          /\ LessLe(i, call.vertex_count)
          /\ LET product == wide_mul(as_u64(i), loc.stride)
                 at      == wide_add(loc.offset, product.value)
                 wraps   == product.overflow \/ at.overflow
             IN
             IF wraps /\ build = "checked"
             THEN /\ ret' = Panic
                  /\ loc' = [pc |-> "returned", overflow |-> TRUE]
             ELSE /\ loc' = [pc |-> "element", i |-> i, at |-> at.value,
                             overflow |-> loc.overflow \/ wraps]
                  /\ ret' = ret
    /\ UNCHANGED call
    /\ UNCHANGED engine

\* read_data!: the $size components of the element are read at the position sought
read_data_element_u64 ==
    /\ call.op = "read_attribute_data_u64"
    /\ loc.pc = "element"
    /\ LET w == ComponentType(call.data_type).w
           element == IF IsFar(loc.at) THEN << >>
                      ELSE read_le(call.vertex_buffer, FromLe(loc.at), w * call.size)
       IN
       ret' = IF element = << >> THEN Failure("UnexpectedEof") ELSE Success(element)
    /\ loc' = [loc EXCEPT !.pc = "returned"]
    /\ UNCHANGED call
    /\ UNCHANGED engine

\* u32 values: small ones, 2^31, 2^32 - 2 and 2^32 - 1
U32s == {ToLe(0, 4), ToLe(1, 4), ToLe(6, 4), <<0, 0, 0, 128>>, <<254, 255, 255, 255>>,
         [k \in 1..4 |-> 255]}

\* a mesh object and an attribute of it
WideCalls ==
    [op : {"read_attribute_data_u64"},
     vertex_buffer : {BufferBytes(1, MaxBuffer)},
     index : {0, 1},
     offset : {ToLe(0, 4), ToLe(1, 4), [k \in 1..4 |-> 255]},
     data_type : {"Byte", "Float"},
     size : {3},
     vertex_offset : {ToLe(0, 4), ToLe(6, 4), [k \in 1..4 |-> 255]},
     vertex_offset2 : {<<254, 255, 255, 255>>},
     stride : U32s,
     stride2 : {ToLe(6, 4)},
     vertex_count : U32s]

InitWide ==
    /\ Idle
    /\ call \in WideCalls
    /\ loc = [pc |-> "begin"]
    /\ ret = NoReturn

NextWide == read_attribute_data_u64 \/ read_data_seek_u64 \/ read_data_element_u64

SpecWide == InitWide /\ [][NextWide]_vars


(***************************************************************************)
(* Properties.                                                             *)
(***************************************************************************)
Written == mode = "bare" /\ status \in {"read", "next"}

\* C1: a pointer value (absolute of any width or relative, absent or
\* present, nested or not) whose encoding succeeded is decoded, from the
\* position of its offset field in the written bytes, to an equal value.
C1_RoundTrip ==
    (Written /\ IsPtr(root)) => (rd.st = "ok" /\ rd.val = root)

C1_Witness ==
    /\ Written
    /\ IsPtr(root) /\ root.some
    /\ IsPtr(root.sub[1]) /\ root.sub[1].some
    /\ root.k # root.sub[1].k
    /\ rd.val = root


\* the address that the offset field of a written pointer denotes
Encoded(e) ==
    IF e.k = "ptr" THEN FromLe(BytesAt(buf, e.here, e.w))
    ELSE e.here + FromLe(BytesAt(buf, e.here, 8))

\* C2: the position at which the pointee of a present pointer is placed,
\* which is the address its offset field encodes, is a multiple of the
\* alignment of the pointee type, whatever the data cursor was before.
C2_Aligned ==
    \A e \in placed : /\ e.target % e.al = 0
                      /\ Encoded(e) = e.target
                      /\ (status = "ok" => e.target \in DOMAIN buf)

C2_Witness ==
    \E e \in placed : /\ e.al = 4
                      /\ e.from % 4 # 0
                      /\ e.target > e.from
                      /\ e.target > e.here + e.w
                      /\ status = "ok"

\* C3: no step of a write, at any nesting depth, decreases the data cursor.
C3_Monotonic == [][data_ptr' >= data_ptr]_vars

C3_Witness ==
    /\ ev.op = "finish"
    /\ status = "write"
    /\ Len(stack) >= 2
    /\ data_ptr > pos
    /\ data_ptr > ev.dpIn

\* the offset bytes added to position p exceed the unsigned 64-bit range
Exceeds(p, offset_bytes) ==
    LET c == [i \in DOMAIN offset_bytes |-> 255 - offset_bytes[i]] IN
    ~IsFar(c) /\ p > FromLe(c)

Decoded == status \in {"read", "next"} /\ mode = "bare"

\* C4: a RelPtr64 at position p whose offset added to p exceeds the 64-bit
\* range decodes to the overflow error reported at p, the stream is left
\* right after the 8-byte field and the next read returns the byte there.
C4_Overflow ==
    (Decoded /\ root.k = "rel" /\ start + 8 <= StreamLen(buf)
        /\ Exceeds(start, BytesAt(buf, start, 8)))
    => /\ rd.st = "overflow"
       /\ rd.epos = start
       /\ rd.pos = start + 8 /\ ~rd.far
       /\ status = "read" => pos = start + 8
       /\ (status = "next" /\ start + 8 < StreamLen(buf))
            => /\ nx.st = "ok"
               /\ nx.seen = {start + 8}
               /\ nx.val.v = ByteAt(buf, start + 8)

C4_Witness ==
    /\ status = "next"
    /\ root.k = "rel"
    /\ start = 4
    /\ BytesAt(buf, 4, 8) = AllFF(8)
    /\ rd.st = "overflow"
    /\ nx.val.v = ByteAt(buf, 12)

\* C5: the write of an absent pointer at position here writes the width of
\* the pointer in zero bytes and nothing else, leaves the writer at
\* here + width, places no pointee and leaves the data cursor at the
\* maximum of its previous value and here + width.
C5_NullWrite ==
    [][(status = "write" /\ stack # << >> /\ IsPtr(Top.n) /\ Top.pc = "match" /\ ~Top.n.some)
        => LET field == pos..(pos + Top.n.w - 1) IN
           /\ pos' = pos + Top.n.w
           /\ data_ptr' = Max(Top.dpIn, pos + Top.n.w)
           /\ \A q \in field : q \in DOMAIN buf' /\ buf'[q] = 0
           /\ \A q \in DOMAIN buf' \ field : q \in DOMAIN buf /\ buf'[q] = buf[q]
           /\ placed' = placed]_vars

C5_Witness ==
    /\ ev.op = "null"
    /\ ev.w = 2
    /\ ev.dpIn < ev.here + ev.w
    /\ data_ptr = ev.here + ev.w
    /\ pos = ev.here + ev.w

\* C6: an all-zero offset field of any width decodes to an absent pointer,
\* the stream advances by the width of the field and no byte outside the
\* field is read.
C6_NullRead ==
    (Decoded /\ IsPtr(root) /\ start + root.w <= StreamLen(buf)
        /\ BytesAt(buf, start, root.w) = Zeros(root.w))
    => /\ rd.st = "ok"
       /\ ~rd.val.some
       /\ rd.pos = start + root.w /\ ~rd.far
       /\ rd.seen = start..(start + root.w - 1)
       /\ status = "read" => pos = start + root.w

C6_Witness ==
    /\ status = "read"
    /\ stack = << >>
    /\ root.k = "ptr" /\ root.w = 2
    /\ BytesAt(buf, start, 2) = Zeros(2)
    /\ ~rd.val.some
    /\ pos = start + 2

\* C7: after a present pointer has been decoded successfully the stream is
\* right after the offset field, wherever the pointee lies and whatever it
\* contains.
C7_Restored ==
    (Decoded /\ IsPtr(root) /\ rd.st = "ok" /\ rd.val.some)
    => /\ rd.pos = start + root.w /\ ~rd.far
       /\ status = "read" => pos = start + root.w

C7_Witness ==
    /\ status = "read"
    /\ stack = << >>
    /\ root.k = "ptr"
    /\ FromLe(BytesAt(buf, start, 1)) < start
    /\ rd.st = "ok" /\ rd.val.some
    /\ IsPtr(rd.val.sub[1]) /\ rd.val.sub[1].some

\* the position a present offset field at start denotes
Denoted == IF root.k = "rel" THEN start + FromLe(BytesAt(buf, start, root.w))
           ELSE FromLe(BytesAt(buf, start, root.w))

\* C8: the pointee of a present RelPtr64 at position p holding o is decoded
\* at p + o, the pointee of a present absolute pointer holding o at o.
C8_Target ==
    (Decoded /\ stack = << >> /\ IsPtr(root) /\ root.sub[1].k = "prim"
        /\ start + root.w <= StreamLen(buf)
        /\ BytesAt(buf, start, root.w) # Zeros(root.w)
        /\ ~IsFar(BytesAt(buf, start, root.w))
        /\ Denoted + root.sub[1].w <= StreamLen(buf))
    => /\ rd.st = "ok"
       /\ rd.val.some
       /\ rd.val.sub[1].v = FromLe(BytesAt(buf, Denoted, root.sub[1].w))
       /\ rd.seen = start..(start + root.w - 1) \cup Denoted..(Denoted + root.sub[1].w - 1)

C8_Witness ==
    /\ status = "read"
    /\ stack = << >>
    /\ root.k = "rel"
    /\ start = 4
    /\ BytesAt(buf, 4, 8) = ToLe(9, 8)
    /\ rd.st = "ok"
    /\ rd.seen = 4..11 \cup {13}

\* the address x is representable in an offset of w bytes
Representable(w, x) == w >= 4 \/ x < (IF w = 1 THEN 256 ELSE 65536)

\* C9: the write of a present absolute pointer fails exactly when the aligned
\* data cursor chosen as the address of the pointee is not representable in
\* the width of the pointer; then no offset byte and no pointee is written.
C9_TooNarrow ==
    [][(status = "write" /\ stack # << >> /\ Top.n.k = "ptr" /\ Top.pc = "match" /\ Top.n.some)
        => LET target == round_up(Max(data_ptr, pos + Top.n.w), Top.n.sub[1].a) IN
           IF Representable(Top.n.w, target)
           THEN /\ status' = "write"
                /\ FromLe(BytesAt(buf', pos, Top.n.w)) = target
                /\ pos' = target
           ELSE /\ status' = "err"
                /\ buf' = buf
                /\ pos' = pos
                /\ placed' = placed
                /\ stack' = stack]_vars

C9_Witness ==
    /\ status = "err"
    /\ ev.op = "fail"
    /\ Top.n.w = 2
    /\ data_ptr = 65536
    /\ ev.here \notin DOMAIN buf

\* the magic by which the reader selects a variant
MagicOf(variant) ==
    (CHOOSE m \in {SsbhFile[i] : i \in DOMAIN SsbhFile} : m.variant = variant).magic

\* C10: a file written for any of the nine formats, by Ssbh::write or by
\* the write of the format type, starts with "HBSS" and
\* carries at position 16, where the reader looks for it, the magic by
\* which the reader selects that format; the read of the file selects the
\* variant that was written.
C10_MagicDispatch ==
    (mode \in {"file", "typed"} /\ status = "read")
    => /\ BytesAt(buf, 0, 4) = HBSS
       /\ BytesAt(buf, 16, 4) = MagicOf(fmt)
       /\ rd.st = "ok"
       /\ rd.variant = fmt

C10_Witness ==
    /\ mode = "file"
    /\ status = "read"
    /\ fmt = "Shdr"
    /\ rd.variant = "Shdr"
    /\ rd.val = root

\* C11: a format-specific read entry point (Mesh::read, Skel::from_file, ...)
\* applied to a well-formed file whose format magic belongs to another known
\* format returns InvalidSsbhType and no value; it returns a value only when
\* the decoded variant is the one that was asked for.
C11_InvalidSsbhType ==
    (status = "typed" /\ start = 20 /\ fmt \in Variants)
    => /\ BytesAt(buf, 16, 4) # MagicOf(call.want)
            => ret.st = "InvalidSsbhType" /\ ret.val = NoValue
       /\ ret.st = "ok"
            => /\ BytesAt(buf, 16, 4) = MagicOf(call.want)
               /\ ret.variant = call.want
               /\ ret.val = root

C11_Witness ==
    /\ status = "typed"
    /\ fmt = "Skel"
    /\ call.want = "Mesh"
    /\ BytesAt(buf, 16, 4) = <<76, 69, 75, 83>>
    /\ ret.st = "InvalidSsbhType"

\* the result of the read entry point that ran
Outcome == IF status = "typed" THEN ret ELSE rd

\* C12: the decode of a stream whose first four bytes are not "HBSS", or
\* whose format tag at position 16 is none of the nine magics, returns a
\* failure and no object graph, neither a partial nor a default one.
C12_BadMagic ==
    (status \in {"read", "typed"} /\ fmt = "none"
        /\ \/ BytesAt(buf, 0, 4) # <<72, 66, 83, 83>>
           \/ \A v \in Variants : BytesAt(buf, 16, 4) # MagicOf(v))
    => /\ Outcome.st \notin {"ok", "none"}
       /\ Outcome.val = NoValue
       /\ Outcome.variant = "none"

C12_Witness ==
    /\ status = "read"
    /\ fmt = "none"
    /\ StreamLen(buf) = 24
    /\ BytesAt(buf, 0, 4) = <<83, 83, 66, 72>>
    /\ BytesAt(buf, 16, 4) = <<72, 83, 69, 77>>
    /\ rd.st = "magic"
    /\ rd.val = NoValue

\* the pointer of type ty at position p is present and the address it holds
\* exists and lies at or beyond the end of the stream
TargetPastEnd(ty, p) ==
    LET o == BytesAt(buf, p, ty.w) IN
    /\ p + ty.w <= StreamLen(buf)
    /\ o # Zeros(ty.w)
    /\ ~(ty.k = "rel" /\ Exceeds(p, o))
    /\ \/ IsFar(o)
       \/ (IF ty.k = "rel" THEN p + FromLe(o) ELSE FromLe(o)) >= StreamLen(buf)

\* C13: the decode of a present pointer, absolute or relative, first or
\* nested, whose target lies at or beyond the end of the input returns a
\* decode failure and no value: neither an absent pointer nor a default pointee.
C13_PastEnd ==
    (Decoded /\ stack = << >> /\ IsPtr(root)
        /\ \/ TargetPastEnd(root, start)
           \/ /\ start + root.w <= StreamLen(buf)
              /\ BytesAt(buf, start, root.w) # Zeros(root.w)
              /\ ~IsFar(BytesAt(buf, start, root.w))
              /\ IsPtr(root.sub[1])
              /\ TargetPastEnd(root.sub[1], Denoted))
    => /\ rd.st = "eof"
       /\ rd.val = NoValue

C13_Witness ==
    /\ status = "read"
    /\ stack = << >>
    /\ root.k = "ptr"
    /\ root.w = 2
    /\ start = 4
    /\ BytesAt(buf, 4, 2) = ToLe(MaxStream, 2)
    /\ StreamLen(buf) = MaxStream
    /\ rd.st = "eof"

\* C14: on the buffered write path nothing reaches the destination writer
\* when the encode fails; bytes reach it only after the whole encode has
\* succeeded, and they are then the complete in-memory buffer.
C14_Buffered ==
    mode \in {"file", "typed"}
    => /\ status \in {"err", "failed"} => dest = EmptyBuf
       /\ dest # EmptyBuf => status = "flushed" /\ stack = << >>
       /\ status = "flushed" => dest = buf /\ StreamLen(dest) >= 20 + root.w

C14_Witness ==
    /\ status = "failed"
    /\ mode = "typed"
    /\ StreamLen(buf) > 255
    /\ dest = EmptyBuf

\* the size in bytes of one component of an attribute of the given data type
ComponentBytes(data_type) ==
    CASE data_type = "Byte" -> 1 [] data_type = "HalfFloat" -> 2 [] data_type = "Float" -> 4

\* where element i of the attribute of the call starts in its vertex buffer
ElementStart(i) ==
    IF call.index = 0
    THEN call.vertex_offset + call.offset + i * call.stride
    ELSE call.vertex_offset2 + call.offset + i * call.stride2

\* C15: when the decode of an attribute succeeds it returns exactly
\* vertex_count elements, and element i consists of the consecutive components
\* read from byte vertex_offset_s + byte_offset + i * stride_s of vertex buffer s,
\* s in {0, 1} the slot named by the descriptor; a stride larger than the
\* element skips the bytes in between.
C15_Elements ==
    (call.op = "read_attribute_data" /\ ret.st = "ok")
    => /\ call.index \in {0, 1}
       /\ Len(ret.data) = call.vertex_count
       /\ \A i \in 0..(call.vertex_count - 1) : \A j \in 1..call.size :
            LET w    == ComponentBytes(call.data_type)
                from == ElementStart(i) + (j - 1) * w
                bs   == call.vertex_buffers[call.index + 1]
            IN /\ Len(ret.data[i + 1]) = call.size
               /\ from + w <= Len(bs)
               /\ ret.data[i + 1][j].le = [b \in 1..w |-> bs[from + b]]

C15_Witness ==
    /\ call.op = "read_attribute_data"
    /\ ret.st = "ok"
    /\ call.index = 0
    /\ call.vertex_offset = 3
    /\ call.offset = 0
    /\ call.stride = 4
    /\ call.data_type = "Byte"
    /\ call.size = 3
    /\ call.vertex_count = 2
    /\ ret.data[2][1].le = <<24>>

IndexAt(p, w) ==
    LET B(q) == call.polygon_buffer[q + 1] IN
    IF w = 2 THEN B(p) + 256 * B(p + 1)
    ELSE B(p) + 256 * B(p + 1) + 65536 * B(p + 2) + 16777216 * B(p + 3)

\* C17: read_vertex_indices returns exactly vertex_index_count values, the
\* k-th the little-endian unsigned integer at element_offset + k * w of the
\* index buffer (w = 2 for 16-bit, 4 for 32-bit indices) widened to 32 bits;
\* when the buffer ends before count * w bytes are available the call fails
\* and returns no partial list.
C17_Indices ==
    (call.op = "read_vertex_indices" /\ loc.pc = "returned")
    => LET w == IF call.draw_element_type = "UnsignedShort" THEN 2 ELSE 4
           n == call.vertex_index_count
       IN IF n = 0 \/ call.element_offset + n * w <= Len(call.polygon_buffer)
          THEN /\ ret.st = "ok"
               /\ Len(ret.data) = n
               /\ \A k \in 0..(n - 1) : ret.data[k + 1] = IndexAt(call.element_offset + k * w, w)
          ELSE /\ ret.st = "err"
               /\ ret.data = << >>

C17_Witness ==
    /\ call.op = "read_vertex_indices"
    /\ loc.pc = "returned"
    /\ call.draw_element_type = "UnsignedInt"
    /\ call.element_offset = 1
    /\ call.vertex_index_count = 3
    /\ ret.st = "ok"
    /\ ret.data[3] = 10 + 256 * 11 + 65536 * 12 + 16777216 * 13

\* every bone of the call has a name that is a string
NamesRead == \A b \in DOMAIN call.buffers : call.buffers[b].bone_name

\* the weight record made of the six bytes at position p of the bytes bs
WeightAt(bs, p) ==
    LET u == bs[p + 1] + 256 * bs[p + 2] IN
    [vertex_index |-> IF u >= 32768 THEN u - 65536 ELSE u,
     vertex_weight |-> <<bs[p + 3], bs[p + 4], bs[p + 5], bs[p + 6]>>]

\* C18: for a weight region of any length n the decode of the weight stream
\* terminates, reports no error and yields exactly n \div 6 records, record k
\* from the bytes 6k .. 6k + 5; the n % 6 bytes that are left contribute
\* nothing (a region of 9 bytes yields one record).
C18_Weights ==
    /\ []((call.op = "read_influences" /\ NamesRead)
            => /\ ret.st # "err"
               /\ loc.pc = "returned"
                    => /\ ret.st = "ok"
                       /\ Len(ret.data) = Len(call.buffers)
                       /\ \A b \in DOMAIN call.buffers :
                            LET bs == call.buffers[b].data IN
                            /\ Len(ret.data[b]) = Len(bs) \div 6
                            /\ \A k \in 0..(Len(bs) \div 6 - 1) :
                                    ret.data[b][k + 1] = WeightAt(bs, 6 * k))
    /\ (call.op = "read_influences" /\ NamesRead) ~> (ret.st = "ok")

C18_Witness ==
    /\ call.op = "read_influences"
    /\ loc.pc = "returned"
    /\ Len(call.buffers) = 1
    /\ Len(call.buffers[1].data) = 9
    /\ ret.st = "ok"
    /\ Len(ret.data[1]) = 1
    /\ ret.data[1][1].vertex_index = 62193 - 65536

\* the product of two transforms given as arrays of rows
RowProduct(x, y) ==
    [i \in 1..4 |-> [j \in 1..4 |->
        x[i][1] * y[1][j] + x[i][2] * y[2][j] + x[i][3] * y[3][j] + x[i][4] * y[4][j]]]

\* the first bone that carries the requested name
Named == CHOOSE i \in 1..Len(call.bones) :
            /\ call.bones[i].name = call.parent_bone_name
            /\ \A j \in 1..(i - 1) : call.bones[j].name # call.parent_bone_name

\* T(b) * T(p1) * ... * T(pk) for the parent chain of bone i, at most n parents
RECURSIVE ChainProduct(_, _)
ChainProduct(i, n) ==
    LET b == call.bones[i] IN
    IF b.parent_index = << >> \/ n = 0 THEN b.transform
    ELSE RowProduct(b.transform, ChainProduct(b.parent_index[1] + 1, n - 1))

\* C19: for a bone b with the parent chain b, p1, ..., pk (pk without parent)
\* the bind transform returned is T(b) * T(p1) * ... * T(pk) in row-major form,
\* the child as the left factor; for k = 0 it is the transform of b unchanged.
C19_ChainProduct ==
    (call.op = "calculate_single_bind_transform" /\ ret.st = "ok")
    => /\ ret.data = ChainProduct(Named, Len(call.bones))
       /\ call.bones[Named].parent_index = << >> => ret.data = call.bones[Named].transform

C19_Witness ==
    /\ call.op = "calculate_single_bind_transform"
    /\ ret.st = "ok"
    /\ Len(call.bones) = 3
    /\ call.parent_bone_name = "a"
    /\ call.bones[1].name = "a"
    /\ call.bones[1].parent_index = <<1>>
    /\ call.bones[2].parent_index = <<2>>
    /\ call.bones[3].parent_index = << >>
    /\ call.bones[1].transform = <<<<1, 0, 0, 0>>, <<0, 2, 0, 0>>, <<0, 0, 3, 1>>, <<0, 0, 0, 1>>>>
    /\ call.bones[2].transform = <<<<1, 0, 0, 0>>, <<0, 2, 0, 0>>, <<0, 0, 3, 0>>, <<0, 0, 0, 4>>>>
    /\ ret.data = <<<<0, 1, 0, 0>>, <<4, 0, 0, 0>>, <<8, 0, 9, 4>>, <<8, 0, 0, 4>>>>

\* some bone on the parent chain of bone i, within n links, has a parent index
\* outside the bone list
RECURSIVE ChainLeaves(_, _)
ChainLeaves(i, n) ==
    LET b == call.bones[i] IN
    /\ b.parent_index # << >>
    /\ \/ b.parent_index[1] >= Len(call.bones)
       \/ n > 0 /\ ChainLeaves(b.parent_index[1] + 1, n - 1)

\* C20: whenever calculate_single_bind_transform returns, its result is absent
\* exactly when no bone carries the requested name or some bone on the parent
\* chain of the first bone with that name has a parent index outside the bone
\* list; otherwise it is present; an out-of-range parent index never faults.
C20_Absent ==
    (call.op = "calculate_single_bind_transform" /\ loc.pc = "returned")
    => /\ ret.st \in {"ok", "absent"}
       /\ ret.st = "absent"
            <=> \/ \A i \in 1..Len(call.bones) : call.bones[i].name # call.parent_bone_name
                \/ ChainLeaves(Named, Len(call.bones))

C20_Witness ==
    /\ call.op = "calculate_single_bind_transform"
    /\ loc.pc = "returned"
    /\ Len(call.bones) = 2
    /\ call.parent_bone_name = "a"
    /\ call.bones[1].name = "a"
    /\ call.bones[1].parent_index = <<1>>
    /\ call.bones[2].parent_index = <<2>>
    /\ ret.st = "absent"

(***************************************************************************)
(* Layout of the written data.                                             *)
(***************************************************************************)
\* the frame of the record whose field is the pointer that has just written its offset
Containing == stack[Len(stack) - 2]

\* a present pointer field of a record has just written its offset and sought to its pointee
FieldPlaced ==
    /\ status = "write"
    /\ ev.op = "offset"
    /\ Len(stack) >= 3
    /\ Containing.n.k = "rec"

\* C21 as stated: the pointee of a present pointer field at position here lies at or
\* beyond here + the size of the containing record
C21_PastFieldPlusRecord ==
    FieldPlaced => pos >= ev.here + Containing.n.w

\* C21: the pointee of a present pointer field lies at or beyond the end of the pointer
\* field and at or beyond the end (start + size) of every record whose fields are still
\* being written, so it overlaps no field of such a record; top-level and pointee records
C21_PastRecord ==
    FieldPlaced =>
        /\ pos >= ev.here + ev.w
        /\ pos >= Containing.here + Containing.n.w
        /\ \A j \in 1..Len(stack) :
              (stack[j].n.k = "rec" /\ stack[j].pc = "fields")
                  => pos >= stack[j].here + stack[j].n.w

\* the second field of a record that is itself a pointee is a present pointer whose
\* pointee lies before the field's position + the record's size
C21_Witness ==
    /\ FieldPlaced
    /\ Len(stack) = 4
    /\ stack[1].pc = "wait"
    /\ Containing.i = 3
    /\ pos < ev.here + Containing.n.w
    /\ pos = Containing.here + Containing.n.w

\* a pointer whose pointee has been written: the next step of the writer is its update
\* of the data cursor and the seek back
PointeeWritten == status = "write" /\ stack # << >> /\ IsPtr(Top.n) /\ Top.pc = "wait"

\* C22 as stated: the data cursor becomes max(c, round_up(e, a)) for every c, e and a
C22_Max ==
    [][PointeeWritten => data_ptr' = Max(data_ptr, round_up(pos, Top.n.sub[1].a))]_vars

\* the 2-deep nested RelPtr64 around a 4-byte value, written at position 0 with data cursor 0
Depth2 == RelPtr64(RelPtr64(Prim(4, 4, 263)))

\* C22: after the pointee of a present pointer is written with the write cursor at e and
\* the data cursor at c, the data cursor becomes round_up(e, a) when e > c and stays c
\* otherwise: max(c, round_up(e, a)) except when e <= c < round_up(e, a); the 2-deep
\* nested RelPtr64 around a 4-byte value written at position 0 leaves the data cursor at 20
C22_PastWrite ==
    /\ [][PointeeWritten =>
            /\ pos > data_ptr => data_ptr' = round_up(pos, Top.n.sub[1].a)
            /\ pos <= data_ptr => data_ptr' = data_ptr
            /\ ~(pos <= data_ptr /\ data_ptr < round_up(pos, Top.n.sub[1].a))
                  => data_ptr' = Max(data_ptr, round_up(pos, Top.n.sub[1].a))]_vars
    /\ [](status = "ok" /\ mode = "bare" /\ root = Depth2 /\ start = 0 /\ ev.dpIn = 0
            => data_ptr = 20)

\* a one-byte pointer to an absent one-byte pointer of alignment 4 was written at 0: the
\* inner field ends at 5, where the data cursor already stands, and the data cursor stays
\* at 5 and not at 8
C22_Witness ==
    /\ status = "ok"
    /\ mode = "bare"
    /\ root = Ptr(1, NullPtr(1, Prim(2, 4, 0)))
    /\ start = 0
    /\ ev.op = "finish"
    /\ ev.dpIn = 0
    /\ data_ptr = 5

\* the second field of a record is a present pointer that has just written its offset,
\* and the first field of the record is a present pointer too
SecondPlaced ==
    /\ FieldPlaced
    /\ Containing.i = 3
    /\ IsPtr(Containing.n.sub[1])
    /\ Containing.n.sub[1].some

\* the positions written at or after address t: the payload that starts at t
PayloadFrom(t) == {q \in DOMAIN buf : q >= t}

\* C23: in a record with two present pointer fields the pointee of the first starts at a
\* lower address than the pointee of the second (at the same address only when nothing
\* was written for the first), and every byte written for the first pointee, nested
\* pointees included, lies before the start of the second
C23_EncounterOrder ==
    SecondPlaced =>
        /\ \E e \in placed : e.here = Containing.here
        /\ \A e \in placed : e.here = Containing.here =>
              /\ e.target <= pos
              /\ e.target = pos => PayloadFrom(e.target) = {}
              /\ \A q \in PayloadFrom(e.target) : q < pos

\* the first pointee holds a nested pointee: two positions of payload before the second
C23_Witness ==
    /\ SecondPlaced
    /\ Containing.n \in NestedRecs
    /\ \E e \in placed : /\ e.here = Containing.here
                         /\ e.target < pos
                         /\ Cardinality(PayloadFrom(e.target)) >= 2

\* C24: when the write of a pointer field returns Ok, absent or present and after all
\* pointees nested under it, the write cursor is at the field's position + its width
C24_Resume ==
    [][(status = "write" /\ stack # << >> /\ IsPtr(Top.n) /\ Len(stack') < Len(stack)
            /\ status' \in {"write", "ok"})
        => /\ ev'.op \in {"null", "finish"}
           /\ ev'.here = Top.here
           /\ pos' = Top.here + Top.n.w]_vars

\* a present pointer with a nested present pointee has returned: the cursor is back
\* right after the two-byte field although the pointees were written further on
C24_Witness ==
    /\ status = "ok"
    /\ mode = "bare"
    /\ root = Ptr(2, Ptr(1, Prim(1, 1, 7)))
    /\ ev.op = "finish"
    /\ pos = start + 2
    /\ StreamLen(buf) > pos + 1

\* the number encoded in the offset field that has just been written
EncodedOffset == FromLe(BytesAt(buf, ev.here, ev.w))

\* C25: the offset written for a present pointer points at or beyond the end of its own
\* field: a RelPtr64 encodes the distance to its pointee, at least 8; an absolute pointer
\* encodes the address of its pointee, at least here + width; the field is never all zero
C25_PastField ==
    (status = "write" /\ ev.op = "offset") =>
        /\ stack[Len(stack) - 1].n.k = "rel" =>
              /\ pos >= ev.here
              /\ EncodedOffset = pos - ev.here
              /\ EncodedOffset >= 8
        /\ stack[Len(stack) - 1].n.k = "ptr" =>
              /\ EncodedOffset = pos
              /\ EncodedOffset >= ev.here + ev.w
        /\ BytesAt(buf, ev.here, ev.w) # Zeros(ev.w)

\* a RelPtr64 written at 4 with a data cursor of 0 encodes 8; an absolute pointer
\* written at 0 with a data cursor of 0 encodes its own width
C25_Witness ==
    /\ status = "write"
    /\ ev.op = "offset"
    /\ \/ stack[Len(stack) - 1].n.k = "rel" /\ ev.here = 4 /\ ev.dpIn = 0 /\ EncodedOffset = 8
       \/ stack[Len(stack) - 1].n.k = "ptr" /\ ev.here = 0 /\ ev.dpIn = 0 /\ EncodedOffset = ev.w

\* a step of a whole-file write: the header or a step of the ssbh_write of the data
FileWriteStep == mode \in {"file", "typed"} /\ status \in {"header", "write"}

\* C26: in a whole-file write no position is written more than once: the positions a step
\* writes were written by no earlier step, so the header, the fixed fields and the pointee
\* payloads are pairwise disjoint
C26_WriteOnce ==
    [][FileWriteStep =>
          /\ ev'.wrote \cap DOMAIN buf = {}
          /\ DOMAIN buf' = DOMAIN buf \cup ev'.wrote]_vars

\* a file whose record holds two present pointers, the first with a nested pointee, is
\* complete: header 0..19, fields 20..22, payloads 23, 24 and 25
C26_Witness ==
    /\ status = "ok"
    /\ mode = "file"
    /\ root = Rec(Ptr(2, Ptr(1, Prim(1, 1, 7))), Ptr(1, Prim(1, 1, 7)))
    /\ Cardinality(placed) = 3
    /\ DOMAIN buf = 0..25

\* the decode of the present pointer at start has failed in the decode of its pointee:
\* the offset field lies in the stream, is not zero and its target is computed
PointeeFails ==
    /\ Decoded
    /\ stack = << >>
    /\ IsPtr(root)
    /\ start + root.w <= StreamLen(buf)
    /\ BytesAt(buf, start, root.w) # Zeros(root.w)
    /\ ~(root.k = "rel" /\ Exceeds(start, BytesAt(buf, start, root.w)))
    /\ rd.st = "eof"

StoppedAt(q) == ~rd.far /\ rd.pos = q

C28_Returns ==
    /\ []((call.op = "calculate_single_bind_transform" /\ loc.pc = "parents"
             /\ loc.parent_index = << >>)
            => loc.links <= Len(call.bones) - 1)
    /\ (call.op = "calculate_single_bind_transform" /\ loc.pc = "begin")
            ~> (loc.pc = "returned")

\* the links followed from a bone whose parent links end at a root
C28_RootReached ==
    (call.op = "calculate_single_bind_transform" /\ loc.pc = "parents"
        /\ loc.parent_index = << >>)
    => loc.links <= Len(call.bones) - 1

\* the exact value of vertex_offset + byte offset + i * stride, as twelve bytes
ExactPosition ==
    LET vo == IF call.index = 0 THEN call.vertex_offset ELSE call.vertex_offset2
        st == IF call.index = 0 THEN call.stride ELSE call.stride2
    IN SumLe(SumLe(vo \o Zeros(8), call.offset \o Zeros(8), 0),
             MulLe(loc.i, st) \o Zeros(4), 0)

\* C29: for u32 vertex offsets, byte offsets, strides and vertex counts the position
\* vertex_offset + byte offset + i * stride of every iteration i < vertex_count fits in
\* 64 bits: no step of the computation overflows, the position sought is the exact sum,
\* and the decode of the element fails only by reading past the end of the buffer
C29_FitsU64 ==
    call.op = "read_attribute_data_u64" =>
        /\ ret.st # "panic"
        /\ loc.pc # "begin" => ~loc.overflow
        /\ (loc.pc \in {"element", "returned"}) =>
              /\ LessLe(loc.i, call.vertex_count)
              /\ SubSeq(ExactPosition, 9, 12) = Zeros(4)
              /\ loc.at = SubSeq(ExactPosition, 1, 8)
        /\ loc.pc = "returned" =>
              LET n == ComponentType(call.data_type).w * call.size IN
              IF IsFar(loc.at) \/ FromLe(loc.at) + n > Len(call.vertex_buffer)
              THEN ret = Failure("UnexpectedEof")
              ELSE ret.st = "ok" /\ Len(ret.data) = n

\* the largest position: offsets and stride 2^32 - 1 and iteration 2^32 - 2 give
\* 2^64 - 2^32, and the read there runs past the end
C29_Witness ==
    /\ call.op = "read_attribute_data_u64"
    /\ loc.pc = "returned"
    /\ call.index = 0
    /\ call.offset = [k \in 1..4 |-> 255]
    /\ call.vertex_offset = [k \in 1..4 |-> 255]
    /\ call.stride = [k \in 1..4 |-> 255]
    /\ loc.i = <<254, 255, 255, 255>>
    /\ loc.at = <<0, 0, 0, 0, 255, 255, 255, 255>>
    /\ ret = Failure("UnexpectedEof")

\* a call of get_attribute_name has returned or faulted
NameReturned == call.op = "get_attribute_name" /\ loc.pc = "returned"

\* what get_attribute_name returns for a descriptor whose first name is s
NameOf(s) ==
    IF \A k \in DOMAIN s.bytes : s.bytes[k] < 128 THEN Success(s.bytes) ELSE Absent

====
